---- MODULE Spec2Model ----
(***************************************************************************)
(* The SOLID examples.  Of dip_real.py the three coordinators:             *)
(* VideoStreamingService (primary/backup failover, cost comparison),       *)
(* RidePaymentService (fraud pre-check, rotation over payment methods,     *)
(* cheapest-method policy) and GitHubRepositoryService (creation with      *)
(* backup, storage migration); of unified_ocp_example.py the two versions  *)
(* of PaymentProcessor; of lsp_unified_example.py the shapes; of           *)
(* unified_srp_example.py the user registration classes.  The              *)
(* program is single threaded: one call is in progress at a time; pc is    *)
(* its position, log the provider operations it has invoked so far,        *)
(* result/outcome what the caller got back.                                *)
(*                                                                         *)
(* Money is exact decimal arithmetic: a payment fee is an integer number   *)
(* of 1/10000 dollar, a bandwidth cost an integer number of 1/1000 dollar, *)
(* a risk score an integer number of hundredths.  The binary rounding of   *)
(* Python floats (below 1e-12 on these values) is not modelled; dimensions *)
(* of shapes are integers.                                                 *)
(***************************************************************************)
EXTENDS Integers, Sequences, FiniteSets, TLC

VARIABLES
    primary_cdn, backup_cdn,        \* VideoStreamingService._primary_cdn/_backup_cdn
    payment_methods, fraud_detector,\* RidePaymentService._payment_methods/_fraud_detector
    op, args,                       \* the coordinator operation in progress and its arguments
    pc,                             \* position inside that operation
    log,                            \* provider operations invoked by the call, in order
    outcome, result,                \* "none" | "running" | "returned" | "raised", and the value
    fraud_check, available_methods, methods_to_try, loop_i,  \* locals of complete_ride_payment
    constructed,                    \* history: the provider objects as they were constructed
    primary_storage, backup_storage, backup_strategy,  \* GitHubRepositoryService._primary_storage/...
    payment_registry,               \* PaymentProcessor.payment_methods of unified_ocp_example.py
    registered,                     \* history: the register_payment_method calls made, in order
    users,                          \* UserRepository.users of unified_srp_example.py
    register_calls,                 \* history: the register_user calls made, in order
    shape,                          \* the shape object of lsp_unified_example.py in hand
    shape_calls                     \* history: the constructor and setter calls made on it, in order

cfgVars   == <<primary_cdn, backup_cdn, payment_methods, fraud_detector>>
callVars  == <<op, args, pc, log, outcome, result>>
payLocals == <<fraud_check, available_methods, methods_to_try, loop_i>>
repoVars  == <<primary_storage, backup_storage, backup_strategy>>
ocpVars   == <<payment_registry, registered>>
lspVars   == <<shape, shape_calls>>
srpVars   == <<users, register_calls>>
\* what no call on VideoStreamingService or RidePaymentService reads or writes
restVars  == <<constructed, repoVars, ocpVars, lspVars, srpVars>>
vars      == <<cfgVars, callVars, payLocals, restVars>>

----------------------------------------------------------------------------
(* Bounds and input domains *)

MaxGb         == 3    \* estimated_gb ranges over 0..MaxGb
MaxMethods    == 3    \* longest payment_methods list
MaxAmountUnit == 2    \* ride amounts are 0, 50, ..., 50 * MaxAmountUnit dollars
MaxIndex      == 3    \* preferred_method_index ranges over -2..MaxIndex
NumUuids      == 2    \* distinct values uuid.uuid4() may return in one call

Regions       == {"US", "ASIA", "CA", "AF"}
Qualities     == {"1080p", "720p", "8K"}          \* preferred_quality inputs
Countries     == {"US", "DE", "JP"}
Amounts       == {50 * k : k \in 0..MaxAmountUnit}
Indexes       == (0 - 2)..MaxIndex
Uuids         == 1..NumUuids

Range(s)      == {s[i] : i \in DOMAIN s}
Pending       == [pending |-> TRUE]

----------------------------------------------------------------------------
(* CDN providers *)

AkamaiCDN     == [cls |-> "AkamaiCDN", region |-> "us-east"]
CloudFrontCDN == [cls |-> "CloudFrontCDN", distribution_id |-> "distribution123"]
FastlyCDN     == [cls |-> "FastlyCDN", service_id |-> "svc"]

(* Any other implementation of the CDNProvider interface: its region set,  *)
(* its offered list and the operation that raises are its configuration.   *)
StubCDNs ==
    [cls : {"StubCDN"}, regions : {{}, {"US", "AF"}},
     quals : {<< >>, <<"720p">>, <<"480p", "1080p">>},
     fault : {"none", "get_available_qualities", "get_stream_url"}]

CDNProviders == {AkamaiCDN, CloudFrontCDN, FastlyCDN} \cup StubCDNs

is_available_in_region(cdn, region) ==
    CASE cdn.cls = "AkamaiCDN"     -> region \in {"US", "EU", "ASIA"}
      [] cdn.cls = "CloudFrontCDN" -> TRUE
      [] cdn.cls = "FastlyCDN"     -> region \in {"US", "EU", "CA"}
      [] OTHER                     -> region \in cdn.regions

get_available_qualities(cdn, video_id) ==
    CASE cdn.cls = "AkamaiCDN"     -> <<"480p", "720p", "1080p", "4K">>
      [] cdn.cls = "CloudFrontCDN" -> <<"360p", "480p", "720p", "1080p", "4K", "8K">>
      [] cdn.cls = "FastlyCDN"     -> <<"240p", "480p", "720p", "1080p">>
      [] OTHER                     -> cdn.quals

get_stream_url(cdn, video_id, quality, user_location) ==
    CASE cdn.cls = "AkamaiCDN" ->
            <<"https://akamai-", cdn.region, ".com/video/", video_id, "/", quality>>
      [] cdn.cls = "CloudFrontCDN" ->
            <<"https://", cdn.distribution_id, ".cloudfront.net/", video_id, "/", quality, ".m3u8">>
      [] cdn.cls = "FastlyCDN" ->
            <<"https://fastly-global.com/", cdn.service_id, "/stream/", video_id, "?q=", quality>>
      [] OTHER ->
            <<"stub://", video_id, "/", quality>>

\* cost in 1/1000 dollar for data_gb whole gigabytes
get_bandwidth_cost(cdn, data_gb) ==
    CASE cdn.cls = "AkamaiCDN"     -> data_gb * 85
      [] cdn.cls = "CloudFrontCDN" -> data_gb * 75
      [] cdn.cls = "FastlyCDN"     -> data_gb * 95
      [] OTHER                     -> data_gb * 80

\* whether operation opname of cdn raises (no concrete CDN class ever does)
CdnRaises(cdn, opname) == cdn.cls = "StubCDN" /\ cdn.fault = opname

----------------------------------------------------------------------------
(* VideoStreamingService.stream_video *)

Call(on, opname, arg) == [on |-> on, op |-> opname, arg |-> arg]

CdnOps     == {"is_available_in_region", "get_available_qualities", "get_stream_url",
               "get_bandwidth_cost"}
PaymentOps == {"is_available_in_country", "process_payment", "get_processing_fee"}
FraudOps   == {"check_transaction"}

AfterMethod_RemembersRegion(provider, opname, arg) ==
    IF provider.cls = "AkamaiCDN" /\ opname = "is_available_in_region"
    THEN [provider EXCEPT !.region = arg]
    ELSE provider

\* the provider object after one of its methods ran: the methods of the provider
\* classes compute their answer from the arguments and assign no attribute of self
AfterMethod(provider, opname, arg) == provider

\* the provider object after those of the calls that were made on it
RECURSIVE AfterCalls(_, _, _, _)
AfterCalls(provider, on, ops, calls) ==
    IF calls = << >>
    THEN provider
    ELSE LET c == Head(calls)
         IN  AfterCalls(IF c.op \in ops /\ c.on = on
                        THEN AfterMethod(provider, c.op, c.arg)
                        ELSE provider,
                        on, ops, Tail(calls))

\* the coordinators hold the references they were given; the objects behind them
\* are what the calls logged by this step have made of them
ProvidersAfterCalls ==
    LET calls == SubSeq(log', Len(log) + 1, Len(log'))
    IN  /\ primary_cdn' = AfterCalls(primary_cdn, "primary", CdnOps, calls)
        /\ backup_cdn' = AfterCalls(backup_cdn, "backup", CdnOps, calls)
        /\ payment_methods' = [i \in 1..Len(payment_methods) |->
                                  AfterCalls(payment_methods[i], i, PaymentOps, calls)]
        /\ fraud_detector' = AfterCalls(fraud_detector, "fraud_detector", FraudOps, calls)

SelectQuality_LastAlways(preferred_quality, available_qualities) ==
    available_qualities[Len(available_qualities)]

\* quality = preferred if preferred in available else available[-1]
SelectQuality(preferred_quality, available_qualities) ==
    IF preferred_quality \in Range(available_qualities)
    THEN preferred_quality
    ELSE available_qualities[Len(available_qualities)]

Serve_TracksFirst(cdn, role) ==
    LET a       == args
        cQ      == Call(role, "get_available_qualities", a.video_id)
        quals   == get_available_qualities(cdn, a.video_id)
    IN  IF CdnRaises(cdn, "get_available_qualities")
        THEN [ok |-> FALSE, exc |-> "ProviderError", calls |-> <<cQ>>]
        ELSE IF a.preferred_quality \notin Range(quals) /\ quals = << >>
        THEN [ok |-> FALSE, exc |-> "IndexError", calls |-> <<cQ>>]
        ELSE LET quality == SelectQuality(a.preferred_quality, quals)
                 cU == Call(role, "get_stream_url", quality)
                 cT == Call("analytics", "track_stream_start", quality)
             IN  IF CdnRaises(cdn, "get_stream_url")
                 THEN [ok |-> FALSE, exc |-> "ProviderError", calls |-> <<cQ, cT, cU>>]
                 ELSE [ok |-> TRUE, quality |-> quality,
                       stream_url |-> get_stream_url(cdn, a.video_id, quality, a.user_location),
                       calls |-> <<cQ, cT, cU>>]

(* The four statements both branches share: offered list, quality choice,  *)
(* stream URL, analytics.  ok = FALSE when one of them raised; calls are   *)
(* the operations invoked up to that point.                                *)
Serve(cdn, role) ==
    LET a       == args
        cQ      == Call(role, "get_available_qualities", a.video_id)
        quals   == get_available_qualities(cdn, a.video_id)
    IN  IF CdnRaises(cdn, "get_available_qualities")
        THEN [ok |-> FALSE, exc |-> "ProviderError", calls |-> <<cQ>>]
        ELSE IF a.preferred_quality \notin Range(quals) /\ quals = << >>
        THEN [ok |-> FALSE, exc |-> "IndexError", calls |-> <<cQ>>]
        ELSE LET quality == SelectQuality(a.preferred_quality, quals)
                 cU == Call(role, "get_stream_url", quality)
             IN  IF CdnRaises(cdn, "get_stream_url")
                 THEN [ok |-> FALSE, exc |-> "ProviderError", calls |-> <<cQ, cU>>]
                 ELSE [ok |-> TRUE, quality |-> quality,
                       stream_url |-> get_stream_url(cdn, a.video_id, quality, a.user_location),
                       calls |-> <<cQ, cU, Call("analytics", "track_stream_start", quality)>>]

Return(value) ==
    /\ result' = value
    /\ outcome' = "returned"
    /\ pc' = "done"

Raise(exc) ==
    /\ result' = [exception |-> exc]
    /\ outcome' = "raised"
    /\ pc' = "done"

PrimaryResult_NamesBackup(s) ==
    [success |-> TRUE, stream_url |-> s.stream_url, quality |-> s.quality,
     cdn_provider |-> backup_cdn.cls, backup_available |-> TRUE]

\* the dict returned at lines 182-188
PrimaryResult(s) ==
    [success |-> TRUE, stream_url |-> s.stream_url, quality |-> s.quality,
     cdn_provider |-> primary_cdn.cls, backup_available |-> TRUE]

BackupResult_NamesPrimary(s) ==
    [success |-> TRUE, stream_url |-> s.stream_url, quality |-> s.quality,
     cdn_provider |-> primary_cdn.cls, using_backup |-> TRUE]

\* the dict returned at lines 200-206
BackupResult(s) ==
    [success |-> TRUE, stream_url |-> s.stream_url, quality |-> s.quality,
     cdn_provider |-> backup_cdn.cls, using_backup |-> TRUE]

StreamVideo(user_id, video_id, user_location, preferred_quality) ==
    /\ pc = "idle"
    /\ op' = "stream_video"
    /\ args' = [user_id |-> user_id, video_id |-> video_id,
                user_location |-> user_location, preferred_quality |-> preferred_quality]
    /\ pc' = "primary_check"
    /\ log' = << >>
    /\ outcome' = "running"
    /\ result' = Pending
    /\ UNCHANGED <<restVars, payLocals>>
    /\ ProvidersAfterCalls

PrimaryAvailability ==
    /\ pc = "primary_check"
    /\ log' = Append(log, Call("primary", "is_available_in_region", args.user_location))
    /\ pc' = IF is_available_in_region(primary_cdn, args.user_location)
             THEN "primary_try" ELSE "backup_check"
    /\ UNCHANGED <<restVars, payLocals, op, args, outcome, result>>
    /\ ProvidersAfterCalls

PrimaryTry ==
    /\ pc = "primary_try"
    /\ LET s == Serve(primary_cdn, "primary")
       IN  /\ log' = log \o s.calls
           /\ IF s.ok
              THEN Return(PrimaryResult(s))
              ELSE \* except Exception: print, fall through
                   /\ pc' = "backup_check"
                   /\ UNCHANGED <<outcome, result>>
    /\ UNCHANGED <<restVars, payLocals, op, args>>
    /\ ProvidersAfterCalls

BackupAvailability ==
    /\ pc = "backup_check"
    /\ log' = Append(log, Call("backup", "is_available_in_region", args.user_location))
    /\ IF is_available_in_region(backup_cdn, args.user_location)
       THEN /\ pc' = "backup_serve"
            /\ UNCHANGED <<outcome, result>>
       ELSE Return([success |-> FALSE, error |-> "No CDN available in region"])
    /\ UNCHANGED <<restVars, payLocals, op, args>>
    /\ ProvidersAfterCalls

BackupServe ==
    /\ pc = "backup_serve"
    /\ LET s == Serve(backup_cdn, "backup")
       IN  /\ log' = log \o s.calls
           /\ IF s.ok
              THEN Return(BackupResult(s))
              ELSE \* no try block here: the exception reaches the caller
                   Raise(s.exc)
    /\ UNCHANGED <<restVars, payLocals, op, args>>
    /\ ProvidersAfterCalls

Abs(x) == IF x < 0 THEN 0 - x ELSE x
Min2(x, y) == IF x <= y THEN x ELSE y

GetCostOptimizedStreaming(video_id, estimated_gb) ==
    /\ pc = "idle"
    /\ op' = "get_cost_optimized_streaming"
    /\ args' = [video_id |-> video_id, estimated_gb |-> estimated_gb]
    /\ log' = <<Call("primary", "get_bandwidth_cost", estimated_gb),
                Call("backup", "get_bandwidth_cost", estimated_gb)>>
    /\ LET primary_cost == get_bandwidth_cost(primary_cdn, estimated_gb)
           backup_cost  == get_bandwidth_cost(backup_cdn, estimated_gb)
           cheaper_cdn  == IF primary_cost <= backup_cost THEN primary_cdn ELSE backup_cdn
           savings      == Abs(primary_cost - backup_cost)
       IN  Return([recommended_cdn |-> cheaper_cdn.cls,
                   cost |-> Min2(primary_cost, backup_cost),
                   savings |-> savings,
                   comparison |-> [primary |-> [provider |-> primary_cdn.cls, cost |-> primary_cost],
                                   backup  |-> [provider |-> backup_cdn.cls, cost |-> backup_cost]]])
    /\ UNCHANGED <<restVars, payLocals>>
    /\ ProvidersAfterCalls

----------------------------------------------------------------------------
(* Payment methods and fraud detection *)

StripePayment == [cls |-> "StripePayment", prefix |-> "stripe"]
PayPalPayment == [cls |-> "PayPalPayment", prefix |-> "paypal"]
ApplePayment  == [cls |-> "ApplePayment", prefix |-> "apple"]

(* Any other implementation of the PaymentMethod interface: one whose      *)
(* process_payment returns success = False, and one whose process_payment  *)
(* raises.  (Every concrete class always succeeds.)                        *)
StubPayments == [cls : {"StubPayment"}, behaviour : {"declined", "raise"}]

ConcretePayments == {StripePayment, PayPalPayment, ApplePayment}
PaymentMethods   == ConcretePayments \cup StubPayments

is_available_in_country(method, country_code) ==
    CASE method.cls = "StripePayment" -> country_code \in {"US", "CA", "GB", "AU", "DE", "FR"}
      [] method.cls = "PayPalPayment" -> TRUE
      [] method.cls = "ApplePayment"  -> country_code \in {"US", "CA", "GB", "AU", "JP", "CN"}
      [] OTHER                        -> country_code \in {"US", "DE"}

get_processing_fee_VolumeDiscount(method, amount) ==
    CASE method.cls = "StripePayment" -> amount * 290 + 3000
      [] method.cls = "PayPalPayment" -> IF amount < 100 THEN amount * 349 ELSE amount * 149
      [] method.cls = "ApplePayment"  -> amount * 250
      [] OTHER                        -> amount * 300

\* fee in 1/10000 dollar for an amount of whole dollars
get_processing_fee(method, amount) ==
    CASE method.cls = "StripePayment" -> amount * 290 + 3000     \* amount * 0.029 + 0.30
      [] method.cls = "PayPalPayment" -> amount * 349            \* amount * 0.0349
      [] method.cls = "ApplePayment"  -> amount * 250            \* amount * 0.025
      [] OTHER                        -> amount * 300

\* the dict a concrete process_payment returns; uuid is the value of uuid.uuid4()
process_payment(method, amount, uuid) ==
    IF method.cls = "StubPayment"
    THEN [success |-> FALSE]
    ELSE [success |-> TRUE, transaction_id |-> <<method.prefix, uuid>>,
          amount |-> amount, fee |-> get_processing_fee(method, amount)]

PaymentRaises(method) == method.cls = "StubPayment" /\ method.behaviour = "raise"

SiftFraudDetection == [cls |-> "SiftFraudDetection"]
StubFraudDetection == [cls |-> "StubFraudDetection", risk_score |-> 90, is_safe |-> FALSE]
FraudDetectors     == {SiftFraudDetection, StubFraudDetection}

check_transaction_ScoresHigh(detector, user_id, amount, location) ==
    IF detector.cls = "SiftFraudDetection"
    THEN LET risk_score == IF amount < 100 THEN 15 ELSE 65
         IN  [risk_score |-> risk_score, is_safe |-> risk_score < 50,
              recommendations |-> IF risk_score > 30 THEN <<"verify_location">> ELSE << >>]
    ELSE [risk_score |-> detector.risk_score, is_safe |-> detector.is_safe,
          recommendations |-> << >>]

check_transaction_SafeBelow30(detector, user_id, amount, location) ==
    IF detector.cls = "SiftFraudDetection"
    THEN LET risk_score == IF amount < 100 THEN 15 ELSE 35
         IN  [risk_score |-> risk_score, is_safe |-> risk_score < 30,
              recommendations |-> IF risk_score > 30 THEN <<"verify_location">> ELSE << >>]
    ELSE [risk_score |-> detector.risk_score, is_safe |-> detector.is_safe,
          recommendations |-> << >>]

\* risk scores in hundredths
check_transaction(detector, user_id, amount, location) ==
    IF detector.cls = "SiftFraudDetection"
    THEN LET risk_score == IF amount < 100 THEN 15 ELSE 35
         IN  [risk_score |-> risk_score, is_safe |-> risk_score < 50,
              recommendations |-> IF risk_score > 30 THEN <<"verify_location">> ELSE << >>]
    ELSE [risk_score |-> detector.risk_score, is_safe |-> detector.is_safe,
          recommendations |-> << >>]

----------------------------------------------------------------------------
(* Python list slicing: a[k:] and a[:k] for any integer k *)

SliceBound(k, n) ==
    IF k < 0 THEN (IF k + n < 0 THEN 0 ELSE k + n)
             ELSE (IF k > n THEN n ELSE k)

SliceFrom(a, k) == SubSeq(a, SliceBound(k, Len(a)) + 1, Len(a))
SliceTo(a, k)   == SubSeq(a, 1, SliceBound(k, Len(a)))

----------------------------------------------------------------------------
(* RidePaymentService.complete_ride_payment                                *)
(* A method is identified by its position (1-based) in payment_methods;    *)
(* preferred_method_index keeps Python's 0-based value.                    *)

Positions(n) == [i \in 1..n |-> i]

FilterAvailable_All(methods, country) == Positions(Len(methods))

\* [method for method in self._payment_methods if method.is_available_in_country(c)]
FilterAvailable(methods, country) ==
    SelectSeq(Positions(Len(methods)),
              LAMBDA i : is_available_in_country(methods[i], country))

RotateMethods_DropsWrapped(available, preferred_method_index) ==
    SliceFrom(available, preferred_method_index)

RotateMethods_NoRotation(available, preferred_method_index) == available

\* available_methods[preferred_method_index:] + available_methods[:preferred_method_index]
RotateMethods(available, preferred_method_index) ==
    SliceFrom(available, preferred_method_index) \o SliceTo(available, preferred_method_index)

FraudRejects_Never(check) == FALSE

\* if not fraud_check["is_safe"]
FraudRejects(check) == ~check.is_safe

NoLocals ==
    /\ fraud_check = Pending
    /\ available_methods = << >>
    /\ methods_to_try = << >>
    /\ loop_i = 0

ResetLocals ==
    /\ fraud_check' = Pending
    /\ available_methods' = << >>
    /\ methods_to_try' = << >>
    /\ loop_i' = 0

\* the caller takes the value (or the exception) and the call's frame is gone
ResultConsumed ==
    /\ pc = "done"
    /\ op' = "none"
    /\ args' = Pending
    /\ pc' = "idle"
    /\ log' = << >>
    /\ outcome' = "none"
    /\ result' = Pending
    /\ ResetLocals
    /\ UNCHANGED restVars
    /\ ProvidersAfterCalls

CompleteRidePayment(user_id, ride_amount, user_country, user_location, preferred_method_index) ==
    /\ pc = "idle"
    /\ op' = "complete_ride_payment"
    /\ args' = [user_id |-> user_id, ride_amount |-> ride_amount,
                user_country |-> user_country, user_location |-> user_location,
                preferred_method_index |-> preferred_method_index]
    /\ pc' = "fraud_check"
    /\ log' = << >>
    /\ outcome' = "running"
    /\ result' = Pending
    /\ ResetLocals
    /\ UNCHANGED restVars
    /\ ProvidersAfterCalls

FraudCheck ==
    /\ pc = "fraud_check"
    /\ LET check == check_transaction(fraud_detector, args.user_id, args.ride_amount,
                                      args.user_location)
       IN  /\ fraud_check' = check
           /\ log' = Append(log, Call("fraud_detector", "check_transaction", args.ride_amount))
           /\ IF FraudRejects(check)
              THEN Return([success |-> FALSE, error |-> "Transaction flagged as high risk",
                           risk_score |-> check.risk_score])
              ELSE /\ pc' = "find_available"
                   /\ UNCHANGED <<outcome, result>>
    /\ UNCHANGED <<restVars, op, args, available_methods, methods_to_try, loop_i>>
    /\ ProvidersAfterCalls

AvailabilityCalls(methods, country) ==
    [i \in 1..Len(methods) |-> Call(i, "is_available_in_country", country)]

FindAvailable ==
    /\ pc = "find_available"
    /\ LET available == FilterAvailable(payment_methods, args.user_country)
       IN  /\ available_methods' = available
           /\ log' = log \o AvailabilityCalls(payment_methods, args.user_country)
           /\ IF available = << >>
              THEN /\ Return([success |-> FALSE,
                              error |-> "No payment methods available in country"])
                   /\ UNCHANGED <<methods_to_try, loop_i>>
              ELSE /\ methods_to_try' = RotateMethods(available, args.preferred_method_index)
                   /\ loop_i' = 1
                   /\ pc' = "try_methods"
                   /\ UNCHANGED <<outcome, result>>
    /\ UNCHANGED <<restVars, op, args, fraud_check>>
    /\ ProvidersAfterCalls

NextMethod ==
    /\ loop_i' = loop_i + 1
    /\ UNCHANGED <<pc, outcome, result>>

CatchAndContinue_Rethrow(exc) == Raise(exc) /\ UNCHANGED loop_i

\* except Exception as e: print(...); continue
CatchAndContinue(exc) == NextMethod

\* one iteration of "for method in methods_to_try"
TryMethod(uuid) ==
    /\ pc = "try_methods"
    /\ loop_i <= Len(methods_to_try)
    /\ LET pos    == methods_to_try[loop_i]
           method == payment_methods[pos]
       IN  IF PaymentRaises(method)
           THEN /\ log' = Append(log, Call(pos, "process_payment",
                                           [amount |-> args.ride_amount, ret |-> [raised |-> TRUE]]))
                /\ CatchAndContinue("PaymentError")
           ELSE LET r == process_payment(method, args.ride_amount, uuid)
                IN  /\ log' = Append(log, Call(pos, "process_payment",
                                               [amount |-> args.ride_amount, ret |-> r]))
                    /\ IF r.success
                       THEN /\ Return([success |-> TRUE,
                                       transaction_id |-> r.transaction_id,
                                       amount_charged |-> args.ride_amount,
                                       processing_fee |-> r.fee,
                                       payment_method |-> method.cls,
                                       fraud_check_passed |-> TRUE])
                            /\ UNCHANGED loop_i
                       ELSE NextMethod
    /\ UNCHANGED <<restVars, op, args, fraud_check, available_methods, methods_to_try>>
    /\ ProvidersAfterCalls

\* the loop ran out of methods
AllMethodsFailed ==
    /\ pc = "try_methods"
    /\ loop_i > Len(methods_to_try)
    /\ Return([success |-> FALSE, error |-> "All payment methods failed"])
    /\ UNCHANGED <<restVars, op, args, log, payLocals>>
    /\ ProvidersAfterCalls

----------------------------------------------------------------------------
(* RidePaymentService.get_cheapest_payment_method *)

\* one entry of costs; total_cost in 1/10000 dollar, percentage the exact
\* quotient (fee / amount) * 100 kept as numerator and denominator
CostEntry(methods, pos, amount) ==
    LET fee == get_processing_fee(methods[pos], amount)
    IN  [method |-> methods[pos].cls, fee |-> fee,
         total_cost |-> amount * 10000 + fee,
         percentage |-> [num |-> fee * 100, den |-> amount]]

Costs(methods, available, amount) ==
    [k \in 1..Len(available) |-> CostEntry(methods, available[k], amount)]

MinByFee_First(costs) == costs[1]

\* min(costs, key=lambda x: x["fee"]): the first entry with the least fee
MinByFee(costs) ==
    costs[CHOOSE i \in 1..Len(costs) :
            /\ \A j \in 1..Len(costs) : costs[i].fee <= costs[j].fee
            /\ \A j \in 1..(i - 1) : costs[j].fee > costs[i].fee]

\* max(costs, key=lambda x: x["fee"]): the first entry with the greatest fee
MaxByFee(costs) ==
    costs[CHOOSE i \in 1..Len(costs) :
            /\ \A j \in 1..Len(costs) : costs[i].fee >= costs[j].fee
            /\ \A j \in 1..(i - 1) : costs[j].fee < costs[i].fee]

\* the least fee among the entries other than the cheapest one
RunnerUpFee(costs) ==
    LET m == CHOOSE i \in 1..Len(costs) : costs[i] = MinByFee(costs)
        others == {costs[j].fee : j \in (1..Len(costs)) \ {m}}
    IN  CHOOSE f \in others : \A g \in others : f <= g

PotentialSavings_RunnerUp(costs) ==
    IF Len(costs) < 2 THEN 0 ELSE RunnerUpFee(costs) - MinByFee(costs).fee

\* max(costs, key=fee)["fee"] - cheapest["fee"]
PotentialSavings(costs) == MaxByFee(costs).fee - MinByFee(costs).fee

GetCheapestPaymentMethod(amount, country) ==
    /\ pc = "idle"
    /\ op' = "get_cheapest_payment_method"
    /\ args' = [amount |-> amount, country |-> country]
    /\ ResetLocals
    /\ LET available == FilterAvailable(payment_methods, country)
           availCalls == AvailabilityCalls(payment_methods, country)
           feeCalls  == [k \in 1..Len(available) |->
                            Call(available[k], "get_processing_fee", amount)]
           costs     == Costs(payment_methods, available, amount)
       IN  IF available = << >>
           THEN /\ log' = availCalls
                /\ Return([error |-> "No payment methods available"])
           ELSE IF amount = 0
           THEN \* (fee / amount) * 100 divides by zero in the first iteration
                /\ log' = Append(availCalls, feeCalls[1])
                /\ Raise("ZeroDivisionError")
           ELSE /\ log' = availCalls \o feeCalls
                /\ Return([recommended_method |-> MinByFee(costs).method,
                           savings_breakdown |-> costs,
                           potential_savings |-> PotentialSavings(costs)])
    /\ UNCHANGED restVars
    /\ ProvidersAfterCalls

----------------------------------------------------------------------------
(* GitHubRepositoryService and its storage providers *)

\* a bytes value and the absent value of an Optional[bytes]
Bytes(text, len) == [text |-> text, len |-> len]
None             == [none |-> TRUE]

\* the truth value Python gives an Optional[bytes]: None and b"" are false
Truthy(v) == IF "none" \in DOMAIN v THEN FALSE ELSE v.len > 0

FilesystemStorage == [cls |-> "FilesystemStorage", base_path |-> "/repos"]
S3Storage         == [cls |-> "S3Storage", bucket_name |-> "github-repos"]

(* Any other implementation of the RepositoryStorage interface: what its    *)
(* store_repository answers, what its retrieve_repository gives back and    *)
(* the operation that raises are its configuration.                         *)
StubStorages ==
    {[cls |-> "StubStorage", stores |-> s, data |-> d, fault |-> "none"] :
        s \in BOOLEAN, d \in {None, Bytes("", 0), Bytes("stub_repo_data", 14)}}
    \cup {[cls |-> "StubStorage", stores |-> TRUE, data |-> Bytes("stub_repo_data", 14),
           fault |-> f] : f \in {"store_repository", "retrieve_repository"}}

Storages == {FilesystemStorage, S3Storage} \cup StubStorages

StorageRaises(storage, opname) ==
    IF storage.cls = "StubStorage" THEN storage.fault = opname ELSE FALSE

store_repository(storage, repo_id, repo_data) ==
    IF storage.cls = "StubStorage" THEN storage.stores ELSE TRUE

retrieve_repository(storage, repo_id) ==
    CASE storage.cls = "FilesystemStorage" -> Bytes("mock_repo_data", 14)
      [] storage.cls = "S3Storage"         -> Bytes("s3_repo_data", 12)
      [] OTHER                             -> storage.data

\* the SimpleBackup of the demonstration, and other BackupStrategy implementations:
\* one whose dict has no backup_id, one that raises
SimpleBackup     == [cls |-> "SimpleBackup"]
StubBackups      == {[cls |-> "StubBackup", gives |-> g] : g \in {"no_backup_id", "raise"}}
BackupStrategies == {SimpleBackup} \cup StubBackups

BackupRaises(strategy) ==
    IF strategy.cls = "StubBackup" THEN strategy.gives = "raise" ELSE FALSE

\* the timestamp entry of the dict is read by no one and left out
backup_repository(strategy, repo_id, repo_data, uuid) ==
    IF strategy.cls = "SimpleBackup"
    THEN [backup_id |-> [prefix |-> "backup_", uuid |-> uuid]]
    ELSE [status |-> "skipped"]

\* dict.get(key)
DictGet(d, key) == IF key \in DOMAIN d THEN d[key] ELSE None

Creation_SuccessNeedsBackup(primary, backup, strategy, repo_id, initial_data, uuid) ==
    LET cP == Call("primary_storage", "store_repository", repo_id)
        cS == Call("backup_strategy", "backup_repository", repo_id)
        cB == Call("backup_storage", "store_repository", repo_id)
        backup_result == backup_repository(strategy, repo_id, initial_data, uuid)
    IN  IF StorageRaises(primary, "store_repository")
        THEN [ok |-> FALSE, exc |-> "ProviderError", calls |-> <<cP>>]
        ELSE IF ~store_repository(primary, repo_id, initial_data)
        THEN [ok |-> TRUE, calls |-> <<cP>>,
              value |-> [success |-> FALSE, error |-> "Failed to store in primary storage"]]
        ELSE IF BackupRaises(strategy)
        THEN [ok |-> FALSE, exc |-> "ProviderError", calls |-> <<cP, cS>>]
        ELSE IF StorageRaises(backup, "store_repository")
        THEN [ok |-> FALSE, exc |-> "ProviderError", calls |-> <<cP, cS, cB>>]
        ELSE [ok |-> TRUE, calls |-> <<cP, cS, cB>>,
              value |-> [success |-> store_repository(backup, repo_id, initial_data),
                         repo_id |-> repo_id,
                         primary_storage |-> primary.cls,
                         backup_storage |-> backup.cls,
                         backup_created |-> store_repository(backup, repo_id, initial_data),
                         backup_id |-> DictGet(backup_result, "backup_id")]]

\* create_repository run to its end on the three providers: whether it returned,
\* the dict or the exception, and the provider operations it invoked
Creation(primary, backup, strategy, repo_id, initial_data, uuid) ==
    LET cP == Call("primary_storage", "store_repository", repo_id)
        cS == Call("backup_strategy", "backup_repository", repo_id)
        cB == Call("backup_storage", "store_repository", repo_id)
        backup_result == backup_repository(strategy, repo_id, initial_data, uuid)
    IN  IF StorageRaises(primary, "store_repository")
        THEN [ok |-> FALSE, exc |-> "ProviderError", calls |-> <<cP>>]
        ELSE IF ~store_repository(primary, repo_id, initial_data)
        THEN [ok |-> TRUE, calls |-> <<cP>>,
              value |-> [success |-> FALSE, error |-> "Failed to store in primary storage"]]
        ELSE IF BackupRaises(strategy)
        THEN [ok |-> FALSE, exc |-> "ProviderError", calls |-> <<cP, cS>>]
        ELSE IF StorageRaises(backup, "store_repository")
        THEN [ok |-> FALSE, exc |-> "ProviderError", calls |-> <<cP, cS, cB>>]
        ELSE [ok |-> TRUE, calls |-> <<cP, cS, cB>>,
              value |-> [success |-> TRUE,
                         repo_id |-> repo_id,
                         primary_storage |-> primary.cls,
                         backup_storage |-> backup.cls,
                         backup_created |-> store_repository(backup, repo_id, initial_data),
                         backup_id |-> DictGet(backup_result, "backup_id")]]

CreateRepository(repo_id, initial_data, uuid) ==
    /\ pc = "idle"
    /\ op' = "create_repository"
    /\ args' = [repo_id |-> repo_id, initial_data |-> initial_data]
    /\ LET c == Creation(primary_storage, backup_storage, backup_strategy,
                         repo_id, initial_data, uuid)
       IN  /\ log' = c.calls
           /\ IF c.ok THEN Return(c.value) ELSE Raise(c.exc)
    /\ UNCHANGED <<cfgVars, payLocals, constructed, srpVars, repoVars, ocpVars, lspVars>>

\* migrate_repository_storage run to its end: as Creation, and whether line 579,
\* the assignment of the primary storage, was reached
Migration(primary, target_storage, repo_id) ==
    LET cR == Call("primary_storage", "retrieve_repository", repo_id)
        cT == Call("target_storage", "store_repository", repo_id)
        repo_data == retrieve_repository(primary, repo_id)
    IN  IF StorageRaises(primary, "retrieve_repository")
        THEN [ok |-> FALSE, exc |-> "ProviderError", calls |-> <<cR>>, assigned |-> FALSE]
        ELSE IF ~Truthy(repo_data)
        THEN [ok |-> TRUE, calls |-> <<cR>>, assigned |-> FALSE,
              value |-> [success |-> FALSE, error |-> "Repository not found"]]
        ELSE IF StorageRaises(target_storage, "store_repository")
        THEN [ok |-> FALSE, exc |-> "ProviderError", calls |-> <<cR, cT>>, assigned |-> FALSE]
        ELSE IF ~store_repository(target_storage, repo_id, repo_data)
        THEN [ok |-> TRUE, calls |-> <<cR, cT>>, assigned |-> FALSE,
              value |-> [success |-> FALSE, error |-> "Failed to migrate to target storage"]]
        ELSE [ok |-> TRUE, calls |-> <<cR, cT>>, assigned |-> TRUE,
              value |-> [success |-> TRUE,
                         repo_id |-> repo_id,
                         migrated_from |-> primary.cls,
                         migrated_to |-> target_storage.cls,
                         data_size |-> repo_data.len]]

PrimaryAfterMigration_AssignsFirst(primary, target_storage, m) ==
    IF Len(m.calls) > 1 THEN target_storage ELSE primary

\* self._primary_storage once the call is over
PrimaryAfterMigration(primary, target_storage, m) ==
    IF m.assigned THEN target_storage ELSE primary

MigrateRepositoryStorage(repo_id, target_storage) ==
    /\ pc = "idle"
    /\ op' = "migrate_repository_storage"
    /\ args' = [repo_id |-> repo_id, target_storage |-> target_storage]
    /\ LET m == Migration(primary_storage, target_storage, repo_id)
       IN  /\ log' = m.calls
           /\ IF m.ok THEN Return(m.value) ELSE Raise(m.exc)
           /\ primary_storage' = PrimaryAfterMigration(primary_storage, target_storage, m)
    /\ UNCHANGED <<cfgVars, payLocals, constructed, srpVars, backup_storage, backup_strategy,
                   ocpVars, lspVars>>

----------------------------------------------------------------------------
(* PaymentProcessor of unified_ocp_example.py *)

MaxRegistrations == 3    \* register_payment_method calls followed on one processor

\* the names methods are registered and asked for under, and the amounts paid
PaymentTypes == {"credit_card", "paypal", "apple_pay"}
OcpAmounts   == {50, 100}

\* the payment method classes of this file (PayPalPayment and ApplePayment are
\* not the classes of the same name in dip_real.py)
CreditCardPayment        == [cls |-> "CreditCardPayment"]
OcpPayPalPayment         == [cls |-> "PayPalPayment"]
BitcoinPayment           == [cls |-> "BitcoinPayment"]
OcpApplePayment          == [cls |-> "ApplePayment"]
EncryptedPayment(base_payment) ==
    [cls |-> "EncryptedPayment", base_payment |-> base_payment]

OcpMethods == {CreditCardPayment, OcpPayPalPayment, BitcoinPayment, OcpApplePayment,
               EncryptedPayment(CreditCardPayment)}

\* the string method.process(amount) returns, as the sequence of its pieces;
\* f"{amount}" is the decimal numeral of amount
RECURSIVE process(_, _)
process(method, amount) ==
    CASE method.cls = "CreditCardPayment" ->
            <<"Processing $", ToString(amount), " via Credit Card">>
      [] method.cls = "PayPalPayment" ->
            <<"Processing $", ToString(amount), " via PayPal">>
      [] method.cls = "BitcoinPayment" ->
            <<"Processing $", ToString(amount), " via Bitcoin">>
      [] method.cls = "ApplePayment" ->
            <<"Processing $", ToString(amount), " via Apple Pay">>
      [] method.cls = "EncryptedPayment" ->
            <<"[ENCRYPTED] ", "ENCRYPTED(">> \o process(method.base_payment, amount) \o <<")">>

\* processor = PaymentProcessor(): self.payment_methods = {}
FreshProcessor ==
    /\ payment_registry = [n \in {} |-> n]
    /\ registered = << >>

Registered_KeepsFirst(registry, name, method) ==
    [n \in DOMAIN registry \cup {name} |->
        IF n \in DOMAIN registry THEN registry[n] ELSE method]

\* the dict after self.payment_methods[name] = method
Registered(registry, name, method) ==
    [n \in DOMAIN registry \cup {name} |-> IF n = name THEN method ELSE registry[n]]

RegisterPaymentMethod(name, method) ==
    /\ pc = "idle"
    /\ Len(registered) < MaxRegistrations
    /\ op' = "register_payment_method"
    /\ args' = [name |-> name, method |-> method]
    /\ payment_registry' = Registered(payment_registry, name, method)
    /\ registered' = Append(registered, [name |-> name, method |-> method])
    /\ log' = << >>
    /\ Return(None)
    /\ UNCHANGED <<cfgVars, payLocals, constructed, srpVars, repoVars, lspVars>>

\* the registry version's process_payment on a registry: whether it returns, and
\* the string or the exception
RegistryProcess(registry, payment_type, amount) ==
    IF payment_type \notin DOMAIN registry
    THEN [ok |-> FALSE, exc |-> "ValueError: Unsupported payment type"]
    ELSE LET payment_method == registry[payment_type]
         IN  [ok |-> TRUE, value |-> process(payment_method, amount)]

ProcessPayment(payment_type, amount) ==
    /\ pc = "idle"
    /\ op' = "process_payment"
    /\ args' = [payment_type |-> payment_type, amount |-> amount]
    /\ LET r == RegistryProcess(payment_registry, payment_type, amount)
       IN  IF r.ok THEN Return([value |-> r.value]) ELSE Raise(r.exc)
    /\ log' = << >>
    /\ UNCHANGED <<cfgVars, payLocals, constructed, srpVars, repoVars, ocpVars, lspVars>>

----------------------------------------------------------------------------
(* Shapes of lsp_unified_example.py *)

MaxDim         == 2    \* widths, heights and sides range over -1..MaxDim
MaxSetterCalls == 2    \* set_width/set_height calls followed on one object

Dims == (0 - 1)..MaxDim

NoObject == [cls |-> "NoneType"]

\* no shape has been constructed
NoShapeYet ==
    /\ shape = NoObject
    /\ shape_calls = << >>

BadRectangle(width, height) == [cls |-> "BadRectangle", width |-> width, height |-> height]

\* super().__init__(side, side)
BadSquare(side) == [cls |-> "BadSquare", width |-> side, height |-> side]

set_width(s, width) ==
    IF s.cls = "BadSquare"
    THEN [s EXCEPT !.width = width, !.height = width]
    ELSE [s EXCEPT !.width = width]

set_height_KeepsWidth(s, height) == [s EXCEPT !.height = height]

set_height(s, height) ==
    IF s.cls = "BadSquare"
    THEN [s EXCEPT !.width = height, !.height = height]
    ELSE [s EXCEPT !.height = height]

RectangleRejects_WidthOnly(width, height) == width <= 0

\* the guards of the two validating constructors
RectangleRejects(width, height) == width <= 0 \/ height <= 0
SquareRejects(side)             == side <= 0

Rectangle(width, height) == [cls |-> "Rectangle", width |-> width, height |-> height]
Square(side)             == [cls |-> "Square", side |-> side]

area(s) == IF s.cls = "Square" THEN s.side * s.side ELSE s.width * s.height

perimeter(s) == IF s.cls = "Square" THEN 4 * s.side ELSE 2 * (s.width + s.height)

\* a constructor call that goes through: the caller now holds the new object
Constructed(object, call) ==
    /\ shape' = object
    /\ shape_calls' = <<call>>
    /\ log' = << >>
    /\ Return(object)
    /\ UNCHANGED <<cfgVars, payLocals, constructed, srpVars, repoVars, ocpVars>>

\* a call that leaves the object in hand as it is
ShapeUntouched ==
    /\ log' = << >>
    /\ UNCHANGED <<cfgVars, payLocals, constructed, srpVars, repoVars, ocpVars, lspVars>>

NewBadRectangle(width, height) ==
    /\ pc = "idle"
    /\ op' = "BadRectangle"
    /\ args' = [width |-> width, height |-> height]
    /\ Constructed(BadRectangle(width, height),
                   [op |-> "__init__", width |-> width, height |-> height])

NewBadSquare(side) ==
    /\ pc = "idle"
    /\ op' = "BadSquare"
    /\ args' = [side |-> side]
    /\ Constructed(BadSquare(side), [op |-> "__init__", width |-> side, height |-> side])

NewRectangle(width, height) ==
    /\ pc = "idle"
    /\ op' = "Rectangle"
    /\ args' = [width |-> width, height |-> height]
    /\ IF RectangleRejects(width, height)
       THEN /\ Raise("ValueError: Width and height must be positive")
            /\ ShapeUntouched
       ELSE Constructed(Rectangle(width, height),
                        [op |-> "__init__", width |-> width, height |-> height])

NewSquare(side) ==
    /\ pc = "idle"
    /\ op' = "Square"
    /\ args' = [side |-> side]
    /\ IF SquareRejects(side)
       THEN /\ Raise("ValueError: Side must be positive")
            /\ ShapeUntouched
       ELSE Constructed(Square(side), [op |-> "__init__", side |-> side])

IsBad(s) == s.cls \in {"BadRectangle", "BadSquare"}

SetWidth(width) ==
    /\ pc = "idle"
    /\ IsBad(shape)
    /\ Len(shape_calls) <= MaxSetterCalls
    /\ op' = "set_width"
    /\ args' = [width |-> width]
    /\ shape' = set_width(shape, width)
    /\ shape_calls' = Append(shape_calls, [op |-> "set_width", value |-> width])
    /\ log' = << >>
    /\ Return(None)
    /\ UNCHANGED <<cfgVars, payLocals, constructed, srpVars, repoVars, ocpVars>>

SetHeight(height) ==
    /\ pc = "idle"
    /\ IsBad(shape)
    /\ Len(shape_calls) <= MaxSetterCalls
    /\ op' = "set_height"
    /\ args' = [height |-> height]
    /\ shape' = set_height(shape, height)
    /\ shape_calls' = Append(shape_calls, [op |-> "set_height", value |-> height])
    /\ log' = << >>
    /\ Return(None)
    /\ UNCHANGED <<cfgVars, payLocals, constructed, srpVars, repoVars, ocpVars>>

Area ==
    /\ pc = "idle"
    /\ shape # NoObject
    /\ op' = "area"
    /\ args' = Pending
    /\ Return([value |-> area(shape)])
    /\ ShapeUntouched

Perimeter ==
    /\ pc = "idle"
    /\ shape.cls \in {"Rectangle", "Square"}
    /\ op' = "perimeter"
    /\ args' = Pending
    /\ Return([value |-> perimeter(shape)])
    /\ ShapeUntouched

----------------------------------------------------------------------------
(* UserService, UserRepository and UserReportGenerator of unified_srp_example.py *)

MaxUsers == 3    \* register_user calls followed on one repository

Names  == {"alice", "bob"}
Emails == {"alice@example.com", "bob@example.com"}

\* User.__init__
User(name, email) == [name |-> name, email |-> email]

\* user_repository = UserRepository(): self.users = []
FreshRepository ==
    /\ users = << >>
    /\ register_calls = << >>

save_Prepends(stored, user) == <<user>> \o stored

\* UserRepository.save: self.users.append(user)
save(stored, user) == Append(stored, user)

\* UserRepository.find_all: the list itself
find_all(stored) == stored

\* the report string as the sequence of its pieces
RECURSIVE ReportLines(_)
ReportLines(stored) ==
    IF stored = << >>
    THEN << >>
    ELSE <<"- ", Head(stored).name, " (", Head(stored).email, ")\n">>
         \o ReportLines(Tail(stored))

generate_report(stored) == <<"User Report:\n">> \o ReportLines(find_all(stored))

RegisterUser(name, email) ==
    /\ pc = "idle"
    /\ Len(register_calls) < MaxUsers
    /\ op' = "register_user"
    /\ args' = [name |-> name, email |-> email]
    /\ LET user == User(name, email)
       IN  /\ users' = save(users, user)
           /\ log' = <<Call("user_repository", "save", user),
                       Call("email_service", "send_welcome_email", user)>>
           /\ Return(user)
    /\ register_calls' = Append(register_calls, [name |-> name, email |-> email])
    /\ UNCHANGED <<cfgVars, payLocals, constructed, repoVars, ocpVars, lspVars>>

FindAll ==
    /\ pc = "idle"
    /\ op' = "find_all"
    /\ args' = Pending
    /\ log' = << >>
    /\ Return([value |-> find_all(users)])
    /\ UNCHANGED <<cfgVars, payLocals, restVars>>

GenerateReport ==
    /\ pc = "idle"
    /\ op' = "generate_report"
    /\ args' = Pending
    /\ log' = <<Call("user_repository", "find_all", Pending)>>
    /\ Return([value |-> generate_report(users)])
    /\ UNCHANGED <<cfgVars, payLocals, restVars>>

----------------------------------------------------------------------------
(* Specifications *)

InitCall ==
    /\ op = "none"
    /\ args = Pending
    /\ pc = "idle"
    /\ log = << >>
    /\ outcome = "none"
    /\ result = Pending
    /\ NoLocals
    /\ constructed = [primary_cdn |-> primary_cdn, backup_cdn |-> backup_cdn,
                      payment_methods |-> payment_methods,
                      fraud_detector |-> fraud_detector]

SeqsUpTo(S, n) == UNION {[1..k -> S] : k \in 0..n}

\* demonstrate_real_world_dip: VideoStreamingService(akamai, cloudfront, analytics)
DemoStreaming ==
    /\ primary_cdn = AkamaiCDN
    /\ backup_cdn = CloudFrontCDN

\* demonstrate_real_world_dip: RidePaymentService([stripe, paypal, apple_pay], fraud_detector)
DemoPayment ==
    /\ payment_methods = <<StripePayment, PayPalPayment, ApplePayment>>
    /\ fraud_detector = SiftFraudDetection

\* demonstrate_real_world_dip: GitHubRepositoryService(filesystem, s3_storage, backup_strategy)
DemoRepository ==
    /\ primary_storage = FilesystemStorage
    /\ backup_storage = S3Storage
    /\ backup_strategy = SimpleBackup

VideoIds == {"video456"}
UserIds  == {"user123"}
RepoIds  == {"my-awesome-project"}

StreamNext ==
    \/ ResultConsumed
    \/ \E u \in UserIds, v \in VideoIds, r \in Regions, q \in Qualities : StreamVideo(u, v, r, q)
    \/ PrimaryAvailability
    \/ PrimaryTry
    \/ BackupAvailability
    \/ BackupServe
    \/ \E v \in VideoIds, gb \in 0..MaxGb : GetCostOptimizedStreaming(v, gb)

PayNext ==
    \/ ResultConsumed
    \/ \E u \in {"rider123"}, a \in Amounts, c \in Countries, i \in Indexes :
          CompleteRidePayment(u, a, c, "San Francisco", i)
    \/ FraudCheck
    \/ FindAvailable
    \/ \E uuid \in Uuids : TryMethod(uuid)
    \/ AllMethodsFailed
    \/ \E a \in Amounts, c \in Countries : GetCheapestPaymentMethod(a, c)

CostNext ==
    \/ ResultConsumed
    \/ \E v \in VideoIds, gb \in 0..MaxGb : GetCostOptimizedStreaming(v, gb)
    \/ \E a \in Amounts, c \in Countries : GetCheapestPaymentMethod(a, c)

\* a VideoStreamingService over any two CDN providers
InitStream ==
    /\ primary_cdn \in CDNProviders
    /\ backup_cdn \in CDNProviders
    /\ DemoPayment
    /\ DemoRepository
    /\ FreshProcessor
    /\ NoShapeYet
    /\ FreshRepository
    /\ InitCall

\* a RidePaymentService over any list of payment methods and any detector
InitPay ==
    /\ payment_methods \in SeqsUpTo(PaymentMethods, MaxMethods)
    /\ fraud_detector \in FraudDetectors
    /\ DemoStreaming
    /\ DemoRepository
    /\ FreshProcessor
    /\ NoShapeYet
    /\ FreshRepository
    /\ InitCall

CostCDNs == {AkamaiCDN, CloudFrontCDN, FastlyCDN,
             [cls |-> "StubCDN", regions |-> {}, quals |-> << >>, fault |-> "none"]}

\* both coordinators, of which only the cost policies are called
InitCost ==
    /\ primary_cdn \in CostCDNs
    /\ backup_cdn \in CostCDNs
    /\ payment_methods \in SeqsUpTo(PaymentMethods, MaxMethods)
    /\ fraud_detector = SiftFraudDetection
    /\ DemoRepository
    /\ FreshProcessor
    /\ NoShapeYet
    /\ FreshRepository
    /\ InitCall

LspNext ==
    \/ ResultConsumed
    \/ \E w \in Dims, h \in Dims : NewBadRectangle(w, h)
    \/ \E side \in Dims : NewBadSquare(side)
    \/ \E w \in Dims, h \in Dims : NewRectangle(w, h)
    \/ \E side \in Dims : NewSquare(side)
    \/ \E w \in Dims : SetWidth(w)
    \/ \E h \in Dims : SetHeight(h)
    \/ Area
    \/ Perimeter

\* the shapes example on its own: no shape yet, the coordinators as demonstrated
InitLsp ==
    /\ DemoStreaming
    /\ DemoPayment
    /\ DemoRepository
    /\ FreshProcessor
    /\ NoShapeYet
    /\ FreshRepository
    /\ InitCall

RepoNext ==
    \/ \E r \in RepoIds, u \in Uuids :
          CreateRepository(r, Bytes("initial_commit_data", 19), u)
    \/ \E r \in RepoIds, t \in Storages : MigrateRepositoryStorage(r, t)

\* every operation of the three coordinators of dip_real.py
DipNext ==
    \/ StreamNext
    \/ PayNext
    \/ RepoNext

(* The three coordinators side by side: the streaming and payment services *)
(* as demonstrated or over providers that fail, the repository service     *)
(* over any primary storage.                                               *)
InitDip ==
    /\ \/ DemoStreaming /\ DemoPayment
       \/ /\ primary_cdn = FastlyCDN
          /\ backup_cdn = [cls |-> "StubCDN", regions |-> {"US", "AF"},
                           quals |-> <<"720p">>, fault |-> "get_stream_url"]
          /\ payment_methods = <<[cls |-> "StubPayment", behaviour |-> "raise"],
                                 [cls |-> "StubPayment", behaviour |-> "declined"]>>
          /\ fraud_detector = SiftFraudDetection
    /\ primary_storage \in Storages
    /\ backup_storage \in {S3Storage,
                           [cls |-> "StubStorage", stores |-> FALSE, data |-> None,
                            fault |-> "none"],
                           [cls |-> "StubStorage", stores |-> TRUE,
                            data |-> Bytes("stub_repo_data", 14),
                            fault |-> "store_repository"]}
    /\ backup_strategy \in BackupStrategies
    /\ FreshProcessor
    /\ NoShapeYet
    /\ FreshRepository
    /\ InitCall

\* the conditional version's process_payment (lines 4-21), which has no state
ConditionalProcess(payment_type, amount) ==
    CASE payment_type = "credit_card" ->
            [ok |-> TRUE, value |-> <<"Processing $", ToString(amount), " via Credit Card">>]
      [] payment_type = "paypal" ->
            [ok |-> TRUE, value |-> <<"Processing $", ToString(amount), " via PayPal">>]
      [] payment_type = "bitcoin" ->
            [ok |-> TRUE, value |-> <<"Processng $", ToString(amount), " via Bitcoin">>]
      [] OTHER ->
            [ok |-> FALSE, exc |-> "ValueError: Unsupported payment type"]

ConditionalProcessPayment(payment_type, amount) ==
    /\ pc = "idle"
    /\ op' = "conditional_process_payment"
    /\ args' = [payment_type |-> payment_type, amount |-> amount]
    /\ LET r == ConditionalProcess(payment_type, amount)
       IN  IF r.ok THEN Return([value |-> r.value]) ELSE Raise(r.exc)
    /\ log' = << >>
    /\ UNCHANGED <<cfgVars, payLocals, restVars>>

\* the registrations of the usage section, lines 71-73 and 80
UsageRegistrations ==
    {[name |-> "credit_card", method |-> CreditCardPayment],
     [name |-> "paypal", method |-> OcpPayPalPayment],
     [name |-> "bitcoin", method |-> BitcoinPayment],
     [name |-> "apple_pay", method |-> OcpApplePayment]}

UsageTypes == {r.name : r \in UsageRegistrations}

\* the two versions of PaymentProcessor side by side
RefactoringNext ==
    \/ ResultConsumed
    \/ \E r \in UsageRegistrations : RegisterPaymentMethod(r.name, r.method)
    \/ \E t \in UsageTypes, a \in OcpAmounts : ProcessPayment(t, a)
    \/ \E t \in UsageTypes, a \in OcpAmounts : ConditionalProcessPayment(t, a)

OcpNext ==
    \/ ResultConsumed
    \/ \E n \in PaymentTypes, m \in OcpMethods : RegisterPaymentMethod(n, m)
    \/ \E t \in PaymentTypes, a \in OcpAmounts : ProcessPayment(t, a)

\* a fresh PaymentProcessor, the coordinators as demonstrated
InitOcp ==
    /\ DemoStreaming
    /\ DemoPayment
    /\ DemoRepository
    /\ FreshProcessor
    /\ NoShapeYet
    /\ FreshRepository
    /\ InitCall

SrpNext ==
    \/ ResultConsumed
    \/ \E n \in Names, e \in Emails : RegisterUser(n, e)
    \/ FindAll
    \/ GenerateReport

\* an empty UserRepository, the other examples as demonstrated
InitSrp ==
    /\ DemoStreaming
    /\ DemoPayment
    /\ DemoRepository
    /\ FreshProcessor
    /\ NoShapeYet
    /\ FreshRepository
    /\ InitCall

SpecStream == InitStream /\ [][StreamNext]_vars
SpecPay    == InitPay /\ [][PayNext]_vars
SpecCost   == InitCost /\ [][CostNext]_vars
SpecLsp    == InitLsp /\ [][LspNext]_vars
SpecDip    == InitDip /\ [][DipNext]_vars
SpecOcp    == InitOcp /\ [][OcpNext]_vars
SpecSrp    == InitSrp /\ [][SrpNext]_vars
SpecRefactoring == InitOcp /\ [][RefactoringNext]_vars

----------------------------------------------------------------------------
(* Vocabulary of the properties *)

Finished(opname) == pc = "done" /\ op = opname

Logged(c) == \E i \in 1..Len(log) : log[i] = c

\* the entries of the log that are calls of operation opname, in order
CallsOf(opname) == SelectSeq(log, LAMBDA c : c.op = opname)

\* the positions on which process_payment was invoked, in order
Attempts == [k \in 1..Len(CallsOf("process_payment")) |-> CallsOf("process_payment")[k].on]

Raised(c) == "raised" \in DOMAIN c.arg.ret

AttemptFailed(c) == IF Raised(c) THEN TRUE ELSE ~c.arg.ret.success

\* the positions of payment_methods available in country, and the k-th of them
AvailableSet(country) ==
    {i \in 1..Len(payment_methods) : is_available_in_country(payment_methods[i], country)}

KthAvailable(country, k) ==
    CHOOSE p \in AvailableSet(country) :
        Cardinality({q \in AvailableSet(country) : q < p}) = k - 1

\* the rotation index, index+1, ..., n-1, 0, ..., index-1 over the available methods
ExpectedOrder(country, index) ==
    LET n == Cardinality(AvailableSet(country))
    IN  [k \in 1..n |-> KthAvailable(country, ((index + k - 1) % n) + 1)]

IsPrefix(s, t) == Len(s) <= Len(t) /\ \A i \in 1..Len(s) : s[i] = t[i]

FraudSafe ==
    check_transaction(fraud_detector, args.user_id, args.ride_amount, args.user_location).is_safe

AlwaysFails(method) == method.cls = "StubPayment"

FlaggedResult ==
    [success |-> FALSE, error |-> "Transaction flagged as high risk",
     risk_score |-> check_transaction(fraud_detector, args.user_id, args.ride_amount,
                                      args.user_location).risk_score]
NoneAvailableResult == [success |-> FALSE, error |-> "No payment methods available in country"]
AllFailedResult     == [success |-> FALSE, error |-> "All payment methods failed"]

----------------------------------------------------------------------------
(* C1: stream_video, primary not available in the region and backup        *)
(* available there (the backup's operations completing): the call returns  *)
(* success = true, the stream URL is the one the backup produced, and      *)
(* cdn_provider names the backup.                                          *)
C1_FailoverToBackup ==
    (/\ Finished("stream_video")
     /\ ~is_available_in_region(primary_cdn, args.user_location)
     /\ is_available_in_region(backup_cdn, args.user_location)
     /\ Serve(backup_cdn, "backup").ok)
    => /\ outcome = "returned"
       /\ result.success = TRUE
       /\ result.cdn_provider = backup_cdn.cls
       /\ result.stream_url =
              get_stream_url(backup_cdn, args.video_id, result.quality, args.user_location)
       /\ Logged(Call("backup", "get_stream_url", result.quality))
       /\ ~\E i \in 1..Len(log) : log[i].on = "primary" /\ log[i].op = "get_stream_url"

C1_Witness ==
    /\ Finished("stream_video")
    /\ primary_cdn = AkamaiCDN
    /\ backup_cdn = CloudFrontCDN
    /\ args.user_location = "AF"
    /\ outcome = "returned"
    /\ result.success
    /\ result.cdn_provider = "CloudFrontCDN"

(* C2: complete_ride_payment, fraud check passed, n available methods and  *)
(* 0 <= preferred_method_index < n: process_payment is invoked in the      *)
(* order index, index+1, ..., n-1, 0, ..., index-1, each method at most    *)
(* once, stopping at the first success, whose transaction is returned.     *)
C2_RotationOrder ==
    (/\ op = "complete_ride_payment"
     /\ pc \in {"try_methods", "done"}
     /\ FraudSafe
     /\ AvailableSet(args.user_country) # {}
     /\ args.preferred_method_index >= 0
     /\ args.preferred_method_index < Cardinality(AvailableSet(args.user_country)))
    => LET calls == CallsOf("process_payment")
           n     == Len(calls)
       IN  /\ IsPrefix(Attempts, ExpectedOrder(args.user_country, args.preferred_method_index))
           /\ \A i, j \in 1..n : i # j => Attempts[i] # Attempts[j]
           /\ \A i \in 1..(n - 1) : AttemptFailed(calls[i])
           /\ (n > 0 /\ ~AttemptFailed(calls[n])) =>
                 /\ pc = "done"
                 /\ outcome = "returned"
                 /\ result.success
                 /\ result.transaction_id = calls[n].arg.ret.transaction_id
                 /\ result.payment_method = payment_methods[calls[n].on].cls
           /\ (pc = "done" /\ (n = 0 \/ AttemptFailed(calls[n]))) =>
                 /\ Attempts = ExpectedOrder(args.user_country, args.preferred_method_index)
                 /\ result = AllFailedResult

\* three providers, the first two fail, the third succeeds, index 0
C2_Witness ==
    /\ Finished("complete_ride_payment")
    /\ Len(payment_methods) = 3
    /\ AlwaysFails(payment_methods[1])
    /\ AlwaysFails(payment_methods[2])
    /\ payment_methods[3] = StripePayment
    /\ args.user_country = "US"
    /\ args.preferred_method_index = 0
    /\ Attempts = <<1, 2, 3>>
    /\ result.success
    /\ result.payment_method = "StripePayment"

(* C3: a process_payment that raises or returns success = false never ends *)
(* complete_ride_payment and never reaches the caller as an exception: the *)
(* next method of the rotation is attempted, and when every available      *)
(* method fails the call returns "All payment methods failed".             *)
C3_FailuresAreCaught ==
    (op = "complete_ride_payment") =>
       LET calls == CallsOf("process_payment")
           n     == Len(calls)
       IN  /\ outcome # "raised"
           /\ \A i \in 1..n :
                 AttemptFailed(calls[i]) =>
                    \/ i < n /\ i < Len(methods_to_try) /\ calls[i + 1].on = methods_to_try[i + 1]
                    \/ i = n /\ pc = "try_methods"
                    \/ i = n /\ i = Len(methods_to_try) /\ pc = "done" /\ result = AllFailedResult
           /\ (/\ pc = "done"
               /\ FraudSafe
               /\ AvailableSet(args.user_country) # {}
               /\ \A p \in AvailableSet(args.user_country) : AlwaysFails(payment_methods[p]))
              => /\ outcome = "returned"
                 /\ result = AllFailedResult
                 /\ {Attempts[k] : k \in 1..n} = AvailableSet(args.user_country)

C3_Witness ==
    /\ Finished("complete_ride_payment")
    /\ result = AllFailedResult
    /\ \E i \in 1..Len(log) : log[i].op = "process_payment" /\ Raised(log[i])
    /\ \E i \in 1..Len(log) : log[i].op = "process_payment" /\ ~Raised(log[i])

(* C4: stream_video is never terminated by one provider's failure: when an *)
(* operation of the available primary raises the backup is tried under the *)
(* same availability check, and when an operation of the backup fails the  *)
(* call still returns a structured result, never an exception.             *)
C4_NeverTerminatedByProvider ==
    Finished("stream_video") =>
       /\ outcome = "returned"
       /\ "success" \in DOMAIN result
       /\ (/\ is_available_in_region(primary_cdn, args.user_location)
           /\ ~Serve(primary_cdn, "primary").ok)
          => Logged(Call("backup", "is_available_in_region", args.user_location))

(* C5: when the fraud check is not safe, complete_ride_payment returns the *)
(* "Transaction flagged as high risk" result with the risk score, and      *)
(* neither is_available_in_country nor process_payment has been invoked.   *)
C5_FraudShortCircuit ==
    (/\ op = "complete_ride_payment"
     /\ pc # "fraud_check"
     /\ ~FraudSafe)
    => /\ pc = "done"
       /\ outcome = "returned"
       /\ result = FlaggedResult
       /\ \A i \in 1..Len(log) :
             log[i].op \notin {"is_available_in_country", "process_payment"}

C5_Witness ==
    /\ Finished("complete_ride_payment")
    /\ Len(payment_methods) > 0
    /\ result.success = FALSE
    /\ result.error = "Transaction flagged as high risk"
    /\ result.risk_score = 90
    /\ log = <<Call("fraud_detector", "check_transaction", args.ride_amount)>>

(* C6: complete_ride_payment always returns a value, and its three failure *)
(* results are exclusive, each exactly under its condition: flagged iff    *)
(* the check is not safe; none available iff safe and no configured method *)
(* is available; all failed iff safe, some method available and every      *)
(* available method fails; success = true in every other case.             *)
C6_FailureOutcomes ==
    Finished("complete_ride_payment") =>
       LET avail   == AvailableSet(args.user_country)
           allFail == \A p \in avail : AlwaysFails(payment_methods[p])
       IN  /\ outcome = "returned"
           /\ (result = FlaggedResult) <=> ~FraudSafe
           /\ (result = NoneAvailableResult) <=> (FraudSafe /\ avail = {})
           /\ (result = AllFailedResult) <=> (FraudSafe /\ avail # {} /\ allFail)
           /\ result.success <=> (FraudSafe /\ avail # {} /\ ~allFail)
           /\ ~result.success =>
                 result.error \in {"Transaction flagged as high risk",
                                   "No payment methods available in country",
                                   "All payment methods failed"}

\* only Stripe configured, and Stripe does not serve JP
C6_Witness ==
    /\ Finished("complete_ride_payment")
    /\ payment_methods = <<StripePayment>>
    /\ args.user_country = "JP"
    /\ result = NoneAvailableResult

(* C7: get_cheapest_payment_method, amount > 0 and some method available:  *)
(* recommended_method is an available method whose fee is at most the fee  *)
(* of every available method, and only available methods are asked their   *)
(* fee.  With exactly Stripe and PayPal available and amount = 100 the     *)
(* fees are 3.20 and 3.49, Stripe is recommended, the savings is 0.29.     *)
C7_CheapestMethod ==
    (/\ Finished("get_cheapest_payment_method")
     /\ args.amount > 0
     /\ AvailableSet(args.country) # {})
    => LET avail == AvailableSet(args.country)
           fee(p) == get_processing_fee(payment_methods[p], args.amount)
       IN  /\ outcome = "returned"
           /\ \E p \in avail :
                 /\ payment_methods[p].cls = result.recommended_method
                 /\ \A q \in avail : fee(p) <= fee(q)
           /\ {c.on : c \in Range(CallsOf("get_processing_fee"))} = avail
           /\ (/\ {payment_methods[p] : p \in avail} = {StripePayment, PayPalPayment}
               /\ args.amount = 100)
              => /\ result.recommended_method = "StripePayment"
                 /\ {e.fee : e \in Range(result.savings_breakdown)} = {32000, 34900}
                 /\ result.potential_savings = 2900

C7_Witness ==
    /\ Finished("get_cheapest_payment_method")
    /\ payment_methods = <<StripePayment, PayPalPayment, ApplePayment>>
    /\ args.country = "DE"
    /\ args.amount = 100
    /\ result.recommended_method = "StripePayment"
    /\ result.potential_savings = 2900

\* get_cost_optimized_streaming recommends the CDN whose cost is the lower one
\* and reports as savings the cost of the other CDN minus that cost
StreamingSavingsIsDelta ==
    (Finished("get_cost_optimized_streaming") /\ outcome = "returned") =>
       LET pcost == get_bandwidth_cost(primary_cdn, args.estimated_gb)
           bcost == get_bandwidth_cost(backup_cdn, args.estimated_gb)
       IN  IF result.recommended_cdn = primary_cdn.cls /\ pcost <= bcost
           THEN result.savings = bcost - pcost /\ result.cost = pcost
           ELSE /\ result.recommended_cdn = backup_cdn.cls
                /\ result.savings = pcost - bcost
                /\ result.cost = bcost

(* C8 as stated: for two, three or more available providers                *)
(* potential_savings is the fee of the second-cheapest available method    *)
(* minus the fee of the cheapest, and get_cost_optimized_streaming's       *)
(* savings is the cost of the non-selected CDN minus that of the selected. *)
C8_RunnerUpDelta ==
    /\ StreamingSavingsIsDelta
    /\ (/\ Finished("get_cheapest_payment_method")
        /\ outcome = "returned"
        /\ Cardinality(AvailableSet(args.country)) >= 2)
       => LET c == result.savings_breakdown
          IN  result.potential_savings = RunnerUpFee(c) - MinByFee(c).fee

(* C8 amended: potential_savings is the fee of the most expensive          *)
(* available method minus the fee of the cheapest one (the runner-up's     *)
(* delta only when exactly two methods are available); the streaming       *)
(* savings is the cost of the non-selected CDN minus that of the selected. *)
C8_SavingsIsMaxMinusMin ==
    /\ StreamingSavingsIsDelta
    /\ (/\ Finished("get_cheapest_payment_method")
        /\ outcome = "returned"
        /\ AvailableSet(args.country) # {})
       => LET avail == AvailableSet(args.country)
              fees  == {get_processing_fee(payment_methods[p], args.amount) : p \in avail}
              hi    == CHOOSE f \in fees : \A g \in fees : g <= f
              lo    == CHOOSE f \in fees : \A g \in fees : f <= g
          IN  /\ result.potential_savings = hi - lo
              /\ Cardinality(avail) = 2 =>
                    result.potential_savings =
                        RunnerUpFee(result.savings_breakdown) - lo

\* three available methods with three different fees: 3.20, 3.49 and 2.50
C8_Witness ==
    /\ Finished("get_cheapest_payment_method")
    /\ payment_methods = <<StripePayment, PayPalPayment, ApplePayment>>
    /\ args.country = "US"
    /\ args.amount = 100
    /\ result.recommended_method = "ApplePayment"
    /\ result.potential_savings = 9900

(* C9: in every successful stream_video result the quality is the          *)
(* preferred quality when the serving provider offers it and the last      *)
(* element of that provider's list otherwise; it is a quality the serving  *)
(* provider offers and the one passed to get_stream_url.                   *)
C9_QualitySelection ==
    (Finished("stream_video") /\ outcome = "returned" /\ result.success) =>
       LET byBackup == "using_backup" \in DOMAIN result
           role     == IF byBackup THEN "backup" ELSE "primary"
           serving  == IF byBackup THEN backup_cdn ELSE primary_cdn
           offered  == get_available_qualities(serving, args.video_id)
       IN  /\ result.cdn_provider = serving.cls
           /\ result.quality \in Range(offered)
           /\ result.quality = IF \E i \in 1..Len(offered) : offered[i] = args.preferred_quality
                               THEN args.preferred_quality
                               ELSE offered[Len(offered)]
           /\ \A i \in 1..Len(log) :
                 (log[i].on = role /\ log[i].op = "get_stream_url") => log[i].arg = result.quality
           /\ Logged(Call(role, "get_stream_url", result.quality))

\* 8K asked of Akamai, whose list ends in 4K
C9_Witness ==
    /\ Finished("stream_video")
    /\ primary_cdn = AkamaiCDN
    /\ args.user_location = "US"
    /\ args.preferred_quality = "8K"
    /\ result.success
    /\ result.quality = "4K"

(* C10: get_cheapest_payment_method returns a value rather than raising,   *)
(* for every amount >= 0 (amount = 0 included) and every country, with     *)
(* the concrete Stripe/PayPal/Apple providers configured.                  *)
C10_CheapestNeverRaises ==
    (/\ Finished("get_cheapest_payment_method")
     /\ Range(payment_methods) \subseteq ConcretePayments
     /\ args.amount >= 0)
    => outcome = "returned"

----------------------------------------------------------------------------
(* Properties of the shapes (lsp_unified_example.py) *)

\* the value of the latest call of setter opname on the object in hand, or what
\* the constructor stored when that setter was never called
LastSet(opname, stored) ==
    LET at == {i \in 1..Len(shape_calls) : shape_calls[i].op = opname}
    IN  IF at = {}
        THEN stored
        ELSE shape_calls[CHOOSE i \in at : \A j \in at : j <= i].value

\* the last two calls on the object in hand were set_width(w) and then set_height(h)
SetWidthThenHeight(w, h) ==
    /\ Len(shape_calls) >= 3
    /\ shape_calls[Len(shape_calls) - 1] = [op |-> "set_width", value |-> w]
    /\ shape_calls[Len(shape_calls)] = [op |-> "set_height", value |-> h]

(* C11: Rectangle(width, height) and Square(side) raise ValueError exactly  *)
(* when a dimension is <= 0, and then no object is produced; otherwise the *)
(* caller gets an object holding the arguments.  Every Rectangle and       *)
(* Square that exists has strictly positive dimensions.                    *)
C11_ValidatedShapes ==
    /\ (shape.cls = "Rectangle") => (shape.width > 0 /\ shape.height > 0)
    /\ (shape.cls = "Square") => (shape.side > 0)
    /\ Finished("Rectangle") =>
          /\ (outcome = "raised") <=> (args.width <= 0 \/ args.height <= 0)
          /\ (outcome = "raised") =>
                /\ result = [exception |-> "ValueError: Width and height must be positive"]
                /\ shape # Rectangle(args.width, args.height)
          /\ (outcome = "returned") =>
                /\ result = Rectangle(args.width, args.height)
                /\ shape = result
    /\ Finished("Square") =>
          /\ (outcome = "raised") <=> (args.side <= 0)
          /\ (outcome = "raised") =>
                /\ result = [exception |-> "ValueError: Side must be positive"]
                /\ shape # Square(args.side)
          /\ (outcome = "returned") =>
                /\ result = Square(args.side)
                /\ shape = result

\* a Rectangle asked for with a good width and a height of 0 while a Square is in hand
C11_Witness ==
    /\ Finished("Rectangle")
    /\ args.width > 0
    /\ args.height = 0
    /\ outcome = "raised"
    /\ shape.cls = "Square"

(* C19: on a BadRectangle set_width leaves the height and set_height the   *)
(* width as they were, so after set_width(w); set_height(h) the area is    *)
(* w * h; a BadSquare has width = height in every state, and after the     *)
(* same two calls its area is h * h.                                       *)
C19_SetterEffects ==
    /\ (shape.cls = "BadRectangle") =>
          /\ shape.width = LastSet("set_width", shape_calls[1].width)
          /\ shape.height = LastSet("set_height", shape_calls[1].height)
    /\ (shape.cls = "BadSquare") => (shape.width = shape.height)
    /\ \A w \in Dims, h \in Dims :
          (IsBad(shape) /\ SetWidthThenHeight(w, h)) =>
             LET expected == IF shape.cls = "BadRectangle" THEN w * h ELSE h * h
             IN  /\ area(shape) = expected
                 /\ Finished("area") => (result.value = expected)

\* set_width(2); set_height(1) on a BadSquare, then area() gives 1 and not 2
C19_Witness ==
    /\ Finished("area")
    /\ shape.cls = "BadSquare"
    /\ SetWidthThenHeight(2, 1)
    /\ result.value = 1

----------------------------------------------------------------------------
(* Properties of the provider references and of the provider objects *)

\* this step is a whole migrate_repository_storage call
MigrationStep ==
    pc = "idle" /\ pc' = "done" /\ op' = "migrate_repository_storage"

\* retrieve_repository on the current primary gave data, and store_repository
\* on the target answered True
RetrievedAndStored(current, target, repo_id) ==
    /\ ~StorageRaises(current, "retrieve_repository")
    /\ Truthy(retrieve_repository(current, repo_id))
    /\ ~StorageRaises(target, "store_repository")
    /\ store_repository(target, repo_id, retrieve_repository(current, repo_id))

(* C12: the only provider reference a coordinator ever changes is the      *)
(* primary storage of GitHubRepositoryService, and only in a               *)
(* migrate_repository_storage call whose retrieval from the current        *)
(* primary and whose store into the target both succeed: it then becomes   *)
(* the target.  A migration answering "Repository not found" or "Failed to *)
(* migrate to target storage" leaves it as it was, create_repository       *)
(* changes no reference, the backup storage and the backup strategy never  *)
(* change, and the CDN, payment and fraud references never change.         *)
C12_ReferenceChanges ==
    [][/\ UNCHANGED <<backup_storage, backup_strategy>>
       /\ UNCHANGED <<primary_cdn, backup_cdn, payment_methods, fraud_detector>>
       /\ ~MigrationStep => UNCHANGED primary_storage
       /\ MigrationStep =>
             LET target == args'.target_storage
             IN  IF RetrievedAndStored(primary_storage, target, args'.repo_id)
                 THEN /\ primary_storage' = target
                      /\ outcome' = "returned"
                      /\ result'.success
                      /\ result'.migrated_from = primary_storage.cls
                      /\ result'.migrated_to = target.cls
                 ELSE /\ primary_storage' = primary_storage
                      /\ outcome' = "returned" =>
                            /\ ~result'.success
                            /\ result'.error \in {"Repository not found",
                                                  "Failed to migrate to target storage"}
      ]_vars

\* the demonstration's migration from the filesystem to S3, gone through
C12_Witness ==
    /\ Finished("migrate_repository_storage")
    /\ result.success
    /\ result.migrated_from = "FilesystemStorage"
    /\ args.target_storage = S3Storage
    /\ primary_storage = S3Storage

----------------------------------------------------------------------------
(* Properties of the provider cost functions *)

(* C13: every provider cost function is monotonic non-decreasing: the cost *)
(* get_bandwidth_cost reported for the estimated volume, and the fee       *)
(* get_processing_fee reported for the amount, is at least the cost or fee *)
(* the same provider gives for any smaller non-negative quantity.          *)
C13_CostsMonotonic ==
    /\ (Finished("get_cost_optimized_streaming") /\ outcome = "returned") =>
          \A q1 \in 0..args.estimated_gb :
             /\ get_bandwidth_cost(primary_cdn, q1) <= result.comparison.primary.cost
             /\ get_bandwidth_cost(backup_cdn, q1) <= result.comparison.backup.cost
    /\ (Finished("get_cheapest_payment_method") /\ outcome = "returned"
           /\ "savings_breakdown" \in DOMAIN result) =>
          \A k \in 1..Len(result.savings_breakdown) :
             \A q1 \in {a \in Amounts : a <= args.amount} :
                get_processing_fee(payment_methods[KthAvailable(args.country, k)], q1)
                   <= result.savings_breakdown[k].fee

\* the three payment providers priced at 100 dollars, to be compared with 0 and 50
C13_Witness ==
    /\ Finished("get_cheapest_payment_method")
    /\ outcome = "returned"
    /\ args.amount = 100
    /\ args.country = "US"
    /\ payment_methods = <<StripePayment, PayPalPayment, ApplePayment>>
    /\ Len(result.savings_breakdown) = 3

----------------------------------------------------------------------------
(* Further properties of the streaming and payment coordinators *)

\* the provider that serves the current call when the coordinator is built over
\* primary p and backup b: the primary if it is available and its operations
\* complete, else the backup under the same two conditions
ServedBy(p, b) ==
    IF is_available_in_region(p, args.user_location) /\ Serve(p, "primary").ok
    THEN "primary"
    ELSE IF is_available_in_region(b, args.user_location) /\ Serve(b, "backup").ok
    THEN "backup"
    ELSE "none"

\* the field names of the successful result of that coordinator
SuccessFields(p, b) ==
    IF ServedBy(p, b) = "primary"
    THEN DOMAIN PrimaryResult(Serve(p, "primary"))
    ELSE DOMAIN BackupResult(Serve(b, "backup"))

\* the two operators above describe the call the actions perform
ServedByAgrees ==
    (Finished("stream_video") /\ outcome = "returned") =>
       IF result.success
       THEN /\ ServedBy(primary_cdn, backup_cdn) # "none"
            /\ DOMAIN result = SuccessFields(primary_cdn, backup_cdn)
       ELSE ServedBy(primary_cdn, backup_cdn) = "none"

(* C15 as stated: for two CDN providers A and B and a region in which      *)
(* stream_video succeeds both with (primary A, backup B) and with          *)
(* (primary B, backup A), the two successful results have the same set of  *)
(* field names.                                                            *)
C15_SameFieldNames ==
    (/\ Finished("stream_video")
     /\ outcome = "returned"
     /\ result.success
     /\ ServedBy(backup_cdn, primary_cdn) # "none")
    => DOMAIN result = SuccessFields(backup_cdn, primary_cdn)

(* C16: SiftFraudDetection reports is_safe exactly when the risk score is  *)
(* below 0.5, the coordinator rejects exactly when the check is not safe,  *)
(* and a ride amount of 100 or more, scored 0.35, is not rejected: the     *)
(* call goes on to ask every payment method for its availability.          *)
C16_FraudThreshold ==
    (op = "complete_ride_payment" /\ fraud_check # Pending) =>
       /\ (fraud_detector = SiftFraudDetection) =>
             /\ fraud_check.is_safe <=> (fraud_check.risk_score < 50)
             /\ (args.ride_amount >= 100) =>
                   /\ fraud_check.risk_score = 35
                   /\ pc \in {"find_available", "try_methods", "done"}
       /\ (pc = "done" /\ outcome = "returned") =>
             /\ (result = FlaggedResult) <=> ~fraud_check.is_safe
             /\ fraud_check.is_safe =>
                   CallsOf("is_available_in_country")
                      = AvailabilityCalls(payment_methods, args.user_country)

\* a ride of 100 dollars, scored 0.35, paid
C16_Witness ==
    /\ Finished("complete_ride_payment")
    /\ fraud_detector = SiftFraudDetection
    /\ args.ride_amount = 100
    /\ fraud_check.risk_score = 35
    /\ outcome = "returned"
    /\ result.success

(* C17 as stated: whenever the provider at position preferred_method_index *)
(* of the configured payment_methods list is available in the country and  *)
(* the fraud check passes, that provider is the first on which             *)
(* process_payment is invoked.                                             *)
C17_ConfiguredPositionFirst ==
    (/\ Finished("complete_ride_payment")
     /\ FraudSafe
     /\ args.preferred_method_index \in 0..(Len(payment_methods) - 1)
     /\ is_available_in_country(payment_methods[args.preferred_method_index + 1],
                                args.user_country))
    => /\ Attempts # << >>
       /\ Attempts[1] = args.preferred_method_index + 1

(* C20 as stated: whenever a stream_video result has backup_available =    *)
(* true, the backup CDN is available in the user's region.                 *)
C20_BackupAvailableIsTruthful ==
    (/\ Finished("stream_video")
     /\ outcome = "returned"
     /\ "backup_available" \in DOMAIN result
     /\ result.backup_available)
    => is_available_in_region(backup_cdn, args.user_location)

----------------------------------------------------------------------------
(* Properties of the registry-based PaymentProcessor (unified_ocp_example.py) *)

RegisteredNames == {registered[i].name : i \in 1..Len(registered)}

\* the method of the latest register_payment_method call made under name t
LastRegistered(t) ==
    LET at == {i \in 1..Len(registered) : registered[i].name = t}
    IN  registered[CHOOSE i \in at : \A j \in at : j <= i].method

(* C18: after any sequence of register_payment_method calls, every name    *)
(* dispatches to the method most recently registered under it (so a        *)
(* registration under one name changes no other name's dispatch);          *)
(* process_payment(t, amount) returns that method's process(amount), and   *)
(* raises ValueError("Unsupported payment type"), leaving the registry as  *)
(* it was, exactly when no method was registered under t.                  *)
C18_RegistryDispatch ==
    /\ DOMAIN payment_registry = RegisteredNames
    /\ \A t \in RegisteredNames : payment_registry[t] = LastRegistered(t)
    /\ Finished("process_payment") =>
          IF args.payment_type \in RegisteredNames
          THEN /\ outcome = "returned"
               /\ result.value = process(LastRegistered(args.payment_type), args.amount)
          ELSE /\ outcome = "raised"
               /\ result = [exception |-> "ValueError: Unsupported payment type"]

\* paypal registered twice with different methods, another name in between,
\* then asked for
C18_Witness ==
    /\ Finished("process_payment")
    /\ Len(registered) = 3
    /\ registered[1] = [name |-> "paypal", method |-> OcpPayPalPayment]
    /\ registered[2].name = "credit_card"
    /\ registered[3] = [name |-> "paypal", method |-> EncryptedPayment(CreditCardPayment)]
    /\ args = [payment_type |-> "paypal", amount |-> 50]
    /\ result.value = <<"[ENCRYPTED] ", "ENCRYPTED(", "Processing $", "50",
                        " via Credit Card", ")">>

----------------------------------------------------------------------------
(* Properties of the user registration example (unified_srp_example.py) *)

(* C26: after any sequence of register_user calls the repository holds     *)
(* exactly one User per call, in call order, with the name and email       *)
(* given; within a call save is invoked before send_welcome_email, both on *)
(* the new user; generate_report lists every stored user once, in that     *)
(* order, and leaves the repository as it was.                             *)
C26_RegistrationOrder ==
    /\ Len(users) = Len(register_calls)
    /\ \A i \in 1..Len(register_calls) :
          /\ users[i].name = register_calls[i].name
          /\ users[i].email = register_calls[i].email
    /\ Finished("register_user") =>
          /\ result = User(args.name, args.email)
          /\ users[Len(users)] = result
          /\ log = <<Call("user_repository", "save", result),
                     Call("email_service", "send_welcome_email", result)>>
    /\ Finished("find_all") => (result.value = users)
    /\ Finished("generate_report") =>
          /\ Len(result.value) = 1 + 5 * Len(register_calls)
          /\ result.value[1] = "User Report:\n"
          /\ \A i \in 1..Len(register_calls) :
                SubSeq(result.value, 5 * i - 3, 5 * i + 1)
                   = <<"- ", register_calls[i].name, " (", register_calls[i].email, ")\n">>

\* bob, then alice, then bob again under another address, and the report of the three
C26_Witness ==
    /\ Finished("generate_report")
    /\ register_calls = <<[name |-> "bob", email |-> "bob@example.com"],
                          [name |-> "alice", email |-> "alice@example.com"],
                          [name |-> "bob", email |-> "alice@example.com"]>>
    /\ Len(result.value) = 16

----------------------------------------------------------------------------
(* Implicit behaviour of the coordinators of dip_real.py *)

\* the positions of the log at which operation opname was invoked
PositionsOf(opname) == {i \in 1..Len(log) : log[i].op = opname}

(* C21: complete_ride_payment is total in preferred_method_index: for      *)
(* every index, negative or past the end included, the call returns        *)
(* rather than raises, process_payment is invoked on available methods     *)
(* only and on each at most once, and "All payment methods failed" is      *)
(* returned only after it was invoked on every available method once.      *)
C21_TotalInIndex ==
    Finished("complete_ride_payment") =>
       /\ outcome = "returned"
       /\ \A j, k \in 1..Len(Attempts) : (Attempts[j] = Attempts[k]) => (j = k)
       /\ Range(Attempts) \subseteq AvailableSet(args.user_country)
       /\ (result = AllFailedResult) =>
             /\ Range(Attempts) = AvailableSet(args.user_country)
             /\ Len(Attempts) = Cardinality(AvailableSet(args.user_country))

\* three failing methods, all available, index past the end: each tried once
C21_Witness ==
    /\ Finished("complete_ride_payment")
    /\ args.preferred_method_index = 3
    /\ Cardinality(AvailableSet(args.user_country)) = 3
    /\ result = AllFailedResult
    /\ Len(Attempts) = 3

(* C22: with SiftFraudDetection the check yields a risk score of 0.15 or   *)
(* 0.35 with is_safe = true for every user, location and amount, and       *)
(* complete_ride_payment never returns "Transaction flagged as high risk". *)
C22_SiftNeverRejects ==
    (op = "complete_ride_payment" /\ fraud_detector = SiftFraudDetection) =>
       /\ (fraud_check # Pending) =>
             /\ fraud_check.risk_score \in {15, 35}
             /\ fraud_check.is_safe
       /\ (pc = "done" /\ outcome = "returned") =>
             ~(result.success = FALSE /\ result.error = "Transaction flagged as high risk")

\* a ride below 100 dollars, scored 0.15, that ends with every method failing
C22_Witness ==
    /\ Finished("complete_ride_payment")
    /\ fraud_detector = SiftFraudDetection
    /\ args.ride_amount = 50
    /\ fraud_check.risk_score = 15
    /\ result = AllFailedResult

(* C23: when the primary CDN is available in the region and the serving    *)
(* statements complete on it, stream_video returns the primary's result    *)
(* (cdn_provider names the primary) and no operation of the backup, its    *)
(* availability predicate included, is invoked during the call.            *)
C23_PrimaryPreferred ==
    (/\ op = "stream_video"
     /\ is_available_in_region(primary_cdn, args.user_location)
     /\ Serve(primary_cdn, "primary").ok)
    => /\ \A i \in 1..Len(log) : log[i].on # "backup"
       /\ (pc = "done") =>
             /\ outcome = "returned"
             /\ result.success
             /\ result.cdn_provider = primary_cdn.cls
             /\ result.stream_url = Serve(primary_cdn, "primary").stream_url
             /\ "using_backup" \notin DOMAIN result

\* Akamai serves in the US although CloudFront, the backup, is available there too
C23_Witness ==
    /\ Finished("stream_video")
    /\ primary_cdn = AkamaiCDN
    /\ backup_cdn = CloudFrontCDN
    /\ args.user_location = "US"
    /\ is_available_in_region(backup_cdn, "US")
    /\ result.cdn_provider = "AkamaiCDN"

(* C24: every stream_video call that returns success = true has invoked    *)
(* analytics.track_stream_start exactly once, after the stream URL of the  *)
(* returned result was obtained and with the quality the result reports;   *)
(* every call that returns "No CDN available in region" has invoked it     *)
(* zero times.                                                             *)
C24_TrackedOnce ==
    (Finished("stream_video") /\ outcome = "returned") =>
       IF result.success
       THEN /\ Cardinality(PositionsOf("track_stream_start")) = 1
            /\ \A t \in PositionsOf("track_stream_start") :
                  /\ log[t].arg = result.quality
                  /\ \E u \in PositionsOf("get_stream_url") :
                        /\ u < t
                        /\ log[u].arg = result.quality
                        /\ log[u].on = IF "using_backup" \in DOMAIN result
                                       THEN "backup" ELSE "primary"
       ELSE /\ result.error = "No CDN available in region"
            /\ PositionsOf("track_stream_start") = {}

\* the primary's get_stream_url raised, the backup served: one tracking call, the backup's
C24_Witness ==
    /\ Finished("stream_video")
    /\ outcome = "returned"
    /\ result.success
    /\ "using_backup" \in DOMAIN result
    /\ Cardinality(PositionsOf("get_stream_url")) = 2
    /\ Cardinality(PositionsOf("track_stream_start")) = 1

(* C25: create_repository invokes the primary store first; when it answers *)
(* false the call returns "Failed to store in primary storage" and neither *)
(* the backup strategy nor the backup storage is invoked; when it answers  *)
(* true the backup strategy and then the backup storage are each invoked   *)
(* once and the call, if no provider raises, returns success = true with   *)
(* backup_created equal to the backup storage's answer.                    *)
C25_CreationOrder ==
    Finished("create_repository") =>
       LET cP == Call("primary_storage", "store_repository", args.repo_id)
           cS == Call("backup_strategy", "backup_repository", args.repo_id)
           cB == Call("backup_storage", "store_repository", args.repo_id)
           stored == store_repository(primary_storage, args.repo_id, args.initial_data)
       IN  /\ log # << >>
           /\ IsPrefix(log, <<cP, cS, cB>>)
           /\ (outcome = "returned") =>
                 IF stored
                 THEN /\ log = <<cP, cS, cB>>
                      /\ result.success
                      /\ result.backup_created
                            = store_repository(backup_storage, args.repo_id, args.initial_data)
                 ELSE /\ log = <<cP>>
                      /\ result = [success |-> FALSE,
                                   error |-> "Failed to store in primary storage"]

\* the backup storage answered False and the repository was created all the same
C25_Witness ==
    /\ Finished("create_repository")
    /\ outcome = "returned"
    /\ result.success
    /\ ~result.backup_created
    /\ Len(log) = 3

----------------------------------------------------------------------------
(* The two versions of PaymentProcessor (unified_ocp_example.py) *)

\* the registry holding exactly the three built-in methods under their names
BuiltinRegistered ==
    /\ DOMAIN payment_registry = {"credit_card", "paypal", "bitcoin"}
    /\ payment_registry["credit_card"] = CreditCardPayment
    /\ payment_registry["paypal"] = OcpPayPalPayment
    /\ payment_registry["bitcoin"] = BitcoinPayment

(* C27 as stated: with CreditCardPayment, PayPalPayment and BitcoinPayment *)
(* registered under credit_card, paypal and bitcoin, the conditional       *)
(* version of process_payment returns for each of these types and every    *)
(* amount what the registry version returns, and both raise ValueError     *)
(* for every other type.                                                   *)
C27_RefactoringPreserves ==
    (Finished("conditional_process_payment") /\ BuiltinRegistered) =>
       LET r == RegistryProcess(payment_registry, args.payment_type, args.amount)
       IN  IF r.ok
           THEN outcome = "returned" /\ result.value = r.value
           ELSE outcome = "raised" /\ result = [exception |-> r.exc]

\* the two versions agree on every type but bitcoin
AgreeButBitcoin ==
    (Finished("conditional_process_payment") /\ BuiltinRegistered
        /\ args.payment_type # "bitcoin") =>
       LET r == RegistryProcess(payment_registry, args.payment_type, args.amount)
       IN  IF r.ok
           THEN outcome = "returned" /\ result.value = r.value
           ELSE outcome = "raised" /\ result = [exception |-> r.exc]

====
